---------------------------- MODULE Spec2Model ----------------------------
(***************************************************************************)
(* A model of the npm CDN gateway of src/main.py: the request dispatch of  *)
(* handle_request, the entry resolution of resolve_entry_file, the         *)
(* registry-backed handlers and the CDN fallback walk of get_package_file. *)
(*                                                                         *)
(* Strings are sequences of one-character strings, so that the string      *)
(* operations of the code (split, rstrip, lstrip, endswith, f-strings) are *)
(* computed character by character.                                        *)
(***************************************************************************)
EXTENDS Naturals, Sequences, FiniteSets

VARIABLES
    pc,            \* position of the handler: "start", "registry", "cdn", "done",
                   \* or "resolve" / "resolved" for a bare call of resolve_entry_file
    full_path,     \* the request path handed to handle_request
    handler,       \* the handler handle_request dispatched to
    package_name,  \* the handler's package_name
    version,       \* the handler's version (None when not given)
    file_path,     \* get_package_file's file_path
    registry_call, \* the outbound registry request of this request, and its answer
    cdn_calls,     \* the outbound CDN requests of this request, in order of issue
    package_json,  \* the version manifest handed to resolve_entry_file
    entry_file,    \* the result of resolve_entry_file
    response,      \* the response returned to the client
    requests       \* the requests in progress of the concurrent model, each
                   \* with the state of its own handler

vars ==
    <<pc, full_path, handler, package_name, version, file_path, registry_call,
      cdn_calls, package_json, entry_file, response, requests>>

(***************************************************************************)
(* Bounds of the model.                                                    *)
(***************************************************************************)
\* longest enumerated request path
MaxPathLen ==
    5

\* longest enumerated value of a jsdelivr / exports / main field
MaxEntryLen ==
    3

(***************************************************************************)
(* String literals of the source.                                          *)
(***************************************************************************)
NPM_REGISTRY ==
    <<"h","t","t","p","s",":","/","/","r","e","g","i","s","t","r","y",".","n","p","m","j","s",".","o","r","g">>

JSDELIVR_CDN ==
    <<"h","t","t","p","s",":","/","/","c","d","n",".","j","s","d","e","l","i","v","r",".","n","e","t","/","n","p","m">>

UNPKG_CDN ==
    <<"h","t","t","p","s",":","/","/","u","n","p","k","g",".","c","o","m">>

PackageNotFoundText ==
    <<"4","0","4"," ","P","a","c","k","a","g","e"," ","N","o","t"," ","F","o","u","n","d">>

NotFoundText ==
    <<"4","0","4"," ","N","o","t"," ","F","o","u","n","d">>

FileNotFoundText ==
    <<"4","0","4"," ","F","i","l","e"," ","N","o","t"," ","F","o","u","n","d">>

VersionPrefix ==
    <<"4","0","4"," ","V","e","r","s","i","o","n"," ">>

NotFoundSuffix ==
    <<" ","N","o","t"," ","F","o","u","n","d">>

NoLatestText ==
    <<"E","r","r","o","r",":"," ","C","a","n","n","o","t"," ","f","i","n","d"," ","l","a","t","e","s","t"," ","v","e","r","s","i","o","n">>

ErrorPrefix ==
    <<"E","r","r","o","r",":"," ">>

H1Open ==
    <<"<","h","1",">">>

H1Close ==
    <<"<","/","h","1",">">>

NoneText ==
    <<"N","o","n","e">>

TextPlain ==
    <<"t","e","x","t","/","p","l","a","i","n">>

TextHtml ==
    <<"t","e","x","t","/","h","t","m","l">>

IndexJs ==
    <<"i","n","d","e","x",".","j","s">>

PackageJsonName ==
    <<"p","a","c","k","a","g","e",".","j","s","o","n">>

ReadmeName ==
    <<"R","E","A","D","M","E",".","m","d">>

DirHtmlHead ==
    <<"<","!","D","O","C","T","Y","P","E"," ","H","T","M","L",">","\n","<","h","t","m","l",">","\n","<","h","e","a","d",">","\n","<","m","e","t","a"," ","c","h","a","r","s","e","t","=","\"","u","t","f","-","8","\"",">","\n","<","t","i","t","l","e",">">>

DirHtmlMid ==
    <<"<","/","t","i","t","l","e",">","\n","<","/","h","e","a","d",">","\n","<","b","o","d","y",">","\n","<","h","1",">">>

DirHtmlList ==
    <<"<","/","h","1",">","\n","<","h","r",">","\n","<","u","l",">","\n">>

DirHtmlTail ==
    <<"<","/","u","l",">","\n","<","h","r",">","\n","<","/","b","o","d","y",">","\n","<","/","h","t","m","l",">">>

LiOpen ==
    <<"<","l","i",">","<","a"," ","h","r","e","f","=","\"">>

LiMid ==
    <<"\"",">">>

LiClose ==
    <<"<","/","a",">","<","/","l","i",">","\n">>

(***************************************************************************)
(* Python values and string operations.                                    *)
(***************************************************************************)
\* Python's None; no string of characters equals it
None ==
    <<"<None>">>

\* str(x) inside an f-string
PyStr(x) ==
    IF x = None THEN NoneText ELSE x

\* `not x` for x a string or None
Falsy(x) ==
    x = None \/ x = <<>>

\* c in s, for a single character c
HasChar(s, c) ==
    \E i \in 1..Len(s) : s[i] = c

\* s.endswith(c), for a single character c
EndsWith(s, c) ==
    Len(s) > 0 /\ s[Len(s)] = c

\* index of the first occurrence of c in s (0 when there is none)
FirstIndex(s, c) ==
    IF HasChar(s, c)
    THEN CHOOSE i \in 1..Len(s) : s[i] = c /\ \A j \in 1..(i - 1) : s[j] # c
    ELSE 0

\* s.split(c, 1): the one or two parts around the first occurrence of c
SplitOnce(s, c) ==
    LET i == FirstIndex(s, c)
    IN  IF i = 0
        THEN <<s>>
        ELSE <<SubSeq(s, 1, i - 1), SubSeq(s, i + 1, Len(s))>>

RECURSIVE rstrip(_, _)
\* s.rstrip(chars): every trailing character that is in chars is removed
rstrip(s, chars) ==
    IF Len(s) > 0 /\ s[Len(s)] \in chars
    THEN rstrip(SubSeq(s, 1, Len(s) - 1), chars)
    ELSE s

RECURSIVE lstrip(_, _)
\* s.lstrip(chars): every leading character that is in chars is removed
lstrip(s, chars) ==
    IF Len(s) > 0 /\ s[1] \in chars
    THEN lstrip(Tail(s), chars)
    ELSE s

\* the argument "./" of lstrip, a set of characters
DotSlash ==
    {".", "/"}

\* the argument "/" of rstrip
Slash ==
    {"/"}

(***************************************************************************)
(* JSON values of a version manifest (package.json).                       *)
(***************************************************************************)
\* a key that is not in the mapping
Absent ==
    [t |-> "absent"]

\* a JSON string
StrVal(s) ==
    [t |-> "str", v |-> s]

\* a JSON value that is neither a mapping nor a string (list, number, null)
OtherVal ==
    [t |-> "other"]

\* the mapping exports["."], with its "default" key (or Absent)
DotMapping(d) ==
    [t |-> "map", default |-> d]

\* the mapping exports, with its "." key (or Absent)
ExportsMapping(dot) ==
    [t |-> "map", dot |-> dot]

\* key in mapping
HasKey(field) ==
    field.t # "absent"

\* isinstance(x, dict)
IsDict(x) ==
    x.t = "map"

\* isinstance(x, str)
IsStr(x) ==
    x.t = "str"

(***************************************************************************)
(* resolve_entry_file                                                      *)
(***************************************************************************)
\* a faulty resolver: main is looked at before jsdelivr and exports
resolve_entry_file_main_first(pj) ==
    IF HasKey(pj.main)
    THEN lstrip(pj.main.v, DotSlash)
    ELSE IF HasKey(pj.jsdelivr)
    THEN lstrip(pj.jsdelivr.v, DotSlash)
    ELSE IF /\ HasKey(pj.exports)
            /\ IsDict(pj.exports)
            /\ HasKey(pj.exports.dot)
            /\ IsDict(pj.exports.dot)
            /\ HasKey(pj.exports.dot.default)
    THEN lstrip(pj.exports.dot.default.v, DotSlash)
    ELSE IF /\ HasKey(pj.exports)
            /\ IsDict(pj.exports)
            /\ HasKey(pj.exports.dot)
            /\ IsStr(pj.exports.dot)
    THEN lstrip(pj.exports.dot.v, DotSlash)
    ELSE None

\* a faulty resolver: exports["."] a mapping without "default" ends the search
resolve_entry_file_no_fallthrough(pj) ==
    IF HasKey(pj.jsdelivr)
    THEN lstrip(pj.jsdelivr.v, DotSlash)
    ELSE IF /\ HasKey(pj.exports)
            /\ IsDict(pj.exports)
            /\ HasKey(pj.exports.dot)
            /\ IsDict(pj.exports.dot)
    THEN IF HasKey(pj.exports.dot.default)
         THEN lstrip(pj.exports.dot.default.v, DotSlash)
         ELSE None
    ELSE IF /\ HasKey(pj.exports)
            /\ IsDict(pj.exports)
            /\ HasKey(pj.exports.dot)
            /\ IsStr(pj.exports.dot)
    THEN lstrip(pj.exports.dot.v, DotSlash)
    ELSE IF HasKey(pj.main)
    THEN lstrip(pj.main.v, DotSlash)
    ELSE None

\* the resolver of the source
resolve_entry_file(pj) ==
    IF HasKey(pj.jsdelivr)
    THEN lstrip(pj.jsdelivr.v, DotSlash)
    ELSE IF /\ HasKey(pj.exports)
            /\ IsDict(pj.exports)
            /\ HasKey(pj.exports.dot)
            /\ IsDict(pj.exports.dot)
            /\ HasKey(pj.exports.dot.default)
    THEN lstrip(pj.exports.dot.default.v, DotSlash)
    ELSE IF /\ HasKey(pj.exports)
            /\ IsDict(pj.exports)
            /\ HasKey(pj.exports.dot)
            /\ IsStr(pj.exports.dot)
    THEN lstrip(pj.exports.dot.v, DotSlash)
    ELSE IF HasKey(pj.main)
    THEN lstrip(pj.main.v, DotSlash)
    ELSE None


(***************************************************************************)
(* handle_request: the chain of shape checks.  The result names the        *)
(* handler that is called and the arguments it is called with.             *)
(***************************************************************************)
\* a faulty chain: the file shape is tested before the directory shape
DispatchFileBeforeDirectory(p) ==
    IF ~HasChar(p, "@") /\ ~EndsWith(p, "/")
    THEN [handler |-> "get_package_entry", package_name |-> p,
          version |-> None, file_path |-> None]
    ELSE IF ~HasChar(p, "@") /\ EndsWith(p, "/")
    THEN [handler |-> "redirect_latest", package_name |-> rstrip(p, Slash),
          version |-> None, file_path |-> None]
    ELSE IF HasChar(p, "@") /\ ~HasChar(SplitOnce(p, "@")[2], "/")
    THEN [handler |-> "get_package_entry", package_name |-> SplitOnce(p, "@")[1],
          version |-> SplitOnce(p, "@")[2], file_path |-> None]
    ELSE IF HasChar(p, "@") /\ HasChar(SplitOnce(p, "@")[2], "/")
    THEN [handler |-> "get_package_file", package_name |-> SplitOnce(p, "@")[1],
          version |-> SplitOnce(SplitOnce(p, "@")[2], "/")[1],
          file_path |-> SplitOnce(SplitOnce(p, "@")[2], "/")[2]]
    ELSE IF EndsWith(p, "/") /\ Len(SplitOnce(rstrip(p, Slash), "@")) = 2
    THEN [handler |-> "get_package_directory",
          package_name |-> SplitOnce(rstrip(p, Slash), "@")[1],
          version |-> SplitOnce(rstrip(p, Slash), "@")[2], file_path |-> None]
    ELSE [handler |-> "not_found", package_name |-> None,
          version |-> None, file_path |-> None]

\* a faulty chain: the directory case requires a version without "/" and the
\* file case a path without a trailing "/", as in the table of shapes
DispatchStrictShapes(p) ==
    IF ~HasChar(p, "@") /\ ~EndsWith(p, "/")
    THEN [handler |-> "get_package_entry", package_name |-> p,
          version |-> None, file_path |-> None]
    ELSE IF ~HasChar(p, "@") /\ EndsWith(p, "/")
    THEN [handler |-> "redirect_latest", package_name |-> rstrip(p, Slash),
          version |-> None, file_path |-> None]
    ELSE IF HasChar(p, "@") /\ ~HasChar(SplitOnce(p, "@")[2], "/")
    THEN [handler |-> "get_package_entry", package_name |-> SplitOnce(p, "@")[1],
          version |-> SplitOnce(p, "@")[2], file_path |-> None]
    ELSE IF EndsWith(p, "/") /\ ~HasChar(SplitOnce(rstrip(p, Slash), "@")[2], "/")
    THEN [handler |-> "get_package_directory",
          package_name |-> SplitOnce(rstrip(p, Slash), "@")[1],
          version |-> SplitOnce(rstrip(p, Slash), "@")[2], file_path |-> None]
    ELSE IF HasChar(p, "@") /\ HasChar(SplitOnce(p, "@")[2], "/")
            /\ ~EndsWith(p, "/")
    THEN [handler |-> "get_package_file", package_name |-> SplitOnce(p, "@")[1],
          version |-> SplitOnce(SplitOnce(p, "@")[2], "/")[1],
          file_path |-> SplitOnce(SplitOnce(p, "@")[2], "/")[2]]
    ELSE [handler |-> "not_found", package_name |-> None,
          version |-> None, file_path |-> None]

\* the chain of the source
Dispatch(p) ==
    IF ~HasChar(p, "@") /\ ~EndsWith(p, "/")
    THEN [handler |-> "get_package_entry", package_name |-> p,
          version |-> None, file_path |-> None]
    ELSE IF ~HasChar(p, "@") /\ EndsWith(p, "/")
    THEN [handler |-> "redirect_latest", package_name |-> rstrip(p, Slash),
          version |-> None, file_path |-> None]
    ELSE IF HasChar(p, "@") /\ ~HasChar(SplitOnce(p, "@")[2], "/")
    THEN [handler |-> "get_package_entry", package_name |-> SplitOnce(p, "@")[1],
          version |-> SplitOnce(p, "@")[2], file_path |-> None]
    ELSE IF EndsWith(p, "/") /\ Len(SplitOnce(rstrip(p, Slash), "@")) = 2
    THEN [handler |-> "get_package_directory",
          package_name |-> SplitOnce(rstrip(p, Slash), "@")[1],
          version |-> SplitOnce(rstrip(p, Slash), "@")[2], file_path |-> None]
    ELSE IF HasChar(p, "@") /\ HasChar(SplitOnce(p, "@")[2], "/")
    THEN [handler |-> "get_package_file", package_name |-> SplitOnce(p, "@")[1],
          version |-> SplitOnce(SplitOnce(p, "@")[2], "/")[1],
          file_path |-> SplitOnce(SplitOnce(p, "@")[2], "/")[2]]
    ELSE [handler |-> "not_found", package_name |-> None,
          version |-> None, file_path |-> None]

(***************************************************************************)
(* Responses.                                                              *)
(***************************************************************************)
\* Response(content=..., status_code=...): no media type, no extra header
PlainResponse(status, body) ==
    [status |-> status, body |-> body, media_type |-> None, cors |-> None,
     location |-> None]

\* HTMLResponse(content=..., status_code=...)
HtmlResponse(status, body) ==
    [status |-> status, body |-> body, media_type |-> TextHtml, cors |-> None,
     location |-> None]

\* RedirectResponse(url=...): status 307, the url in the Location header
RedirectResponse(url) ==
    [status |-> 307, body |-> <<>>, media_type |-> None, cors |-> None,
     location |-> url]

\* a faulty file response: the CORS header is left out
FileResponseNoCors(answer) ==
    LET content_type ==
            IF answer.content_type = None THEN TextPlain ELSE answer.content_type
    IN  [status |-> 200, body |-> answer.body, media_type |-> content_type,
         cors |-> None, location |-> None]

\* the response of get_package_file for an origin's 200 answer
FileResponse(answer) ==
    LET content_type ==
            IF answer.content_type = None THEN TextPlain ELSE answer.content_type
    IN  [status |-> 200, body |-> answer.body, media_type |-> content_type,
         cors |-> <<"*">>, location |-> None]

\* no response returned yet
NoResponse ==
    [status |-> 0, body |-> <<>>, media_type |-> None, cors |-> None,
     location |-> None]

\* <h1>...</h1>
H1(text) ==
    H1Open \o text \o H1Close

\* f"404 Version {version} Not Found"
VersionNotFoundText(v) ==
    VersionPrefix \o PyStr(v) \o NotFoundSuffix

\* str(e) of an exception, an opaque text
ExceptionText ==
    <<"<exception>">>

\* the three links of the fixed file list
FileLinks ==
    LET link(f) == LiOpen \o f \o LiMid \o f \o LiClose
    IN  link(IndexJs) \o link(PackageJsonName) \o link(ReadmeName)

\* the directory page of get_package_directory
DirectoryHtml(name) ==
    DirHtmlHead \o name \o DirHtmlMid \o name \o DirHtmlList \o FileLinks
        \o DirHtmlTail

(***************************************************************************)
(* Outbound calls.                                                         *)
(***************************************************************************)
\* f"{NPM_REGISTRY}/{package_name}"
RegistryUrl(name) ==
    NPM_REGISTRY \o <<"/">> \o name

\* cdn_urls of get_package_file
CdnUrls(name, v, path) ==
    <<JSDELIVR_CDN \o <<"/">> \o name \o <<"@">> \o v \o <<"/">> \o path,
      UNPKG_CDN \o <<"/">> \o name \o <<"@">> \o v \o <<"/">> \o path>>

NoAnswer ==
    [kind |-> "none"]

NoCall ==
    [state |-> "none", url |-> None, answer |-> NoAnswer]

\* client.get(url) has been issued and awaits its answer
Issued(url) ==
    [state |-> "inflight", url |-> url, answer |-> NoAnswer]

\* the awaited call has returned or raised
Completed(call, answer) ==
    [state |-> "done", url |-> call.url, answer |-> answer]


(***************************************************************************)
(* The inputs: request paths, version manifests, and the answers of the    *)
(* registry and of the CDN origins.                                        *)
(***************************************************************************)
BoundedSeq(S, n) ==
    UNION {[1..k -> S] : k \in 0..n}

Lodash ==
    <<"l","o","d","a","s","h">>

LodashVersion ==
    <<"4",".","1","7",".","2","1">>

LodashFile ==
    <<"d","i","s","t","/","l","o","d","a","s","h",".","j","s">>

Vue ==
    <<"v","u","e">>

VueVersion ==
    <<"3",".","3",".","4">>

VueMissingVersion ==
    <<"9",".","9",".","9">>

VueEntry ==
    <<".","/","d","i","s","t","/","v","u","e",".","r","u","n","t","i","m","e",".","e","s","m","-","b","u","n","d","l","e","r",".","j","s">>

PathChars ==
    {"@", "/", "a"}

\* the example requests of the specification
ScenarioPaths ==
    { Lodash,
      Lodash \o <<"/">>,
      Lodash \o <<"@">> \o LodashVersion,
      Lodash \o <<"@">> \o LodashVersion \o <<"/">>,
      Lodash \o <<"@">> \o LodashVersion \o <<"/">> \o LodashFile,
      Vue \o <<"@">> \o VueVersion,
      Vue \o <<"@">> \o VueMissingVersion }

\* full_path is never empty: the route "/" is served by root()
RequestPaths ==
    (BoundedSeq(PathChars, MaxPathLen) \ {<<>>}) \cup ScenarioPaths

EntryChars ==
    {".", "/", "a"}

\* values of the jsdelivr, exports["."], exports["."]["default"] and main fields
EntryStrings ==
    BoundedSeq(EntryChars, MaxEntryLen) \cup {VueEntry, IndexJs, <<".", ".", "/", "a">>}

StrVals ==
    {StrVal(s) : s \in EntryStrings}

FieldValues ==
    {Absent} \cup StrVals

DotValues ==
    {Absent, OtherVal} \cup StrVals
        \cup {DotMapping(d) : d \in FieldValues}

ExportsValues ==
    {Absent, OtherVal, StrVal(IndexJs)}
        \cup {ExportsMapping(dot) : dot \in DotValues}

\* every version manifest within the bounds
VersionManifests ==
    [jsdelivr : FieldValues, exports : ExportsValues, main : FieldValues]

\* the version manifests the registry serves in the request model
SampleVersionManifests ==
    { [jsdelivr |-> Absent, exports |-> Absent, main |-> Absent],
      [jsdelivr |-> Absent, exports |-> Absent, main |-> StrVal(<<".", "/", "a">>)],
      [jsdelivr |-> Absent, exports |-> Absent, main |-> StrVal(<<".", "/">>)],
      [jsdelivr |-> Absent,
       exports |-> ExportsMapping(DotMapping(StrVal(VueEntry))),
       main |-> StrVal(IndexJs)] }

\* the value of an empty versions mapping ({} has no value)
NoVersionData ==
    [jsdelivr |-> Absent, exports |-> Absent, main |-> Absent]

PublishedVersions ==
    {<<"a">>, VueVersion}

\* the versions mapping of a manifest: no version, one published version, or
\* both
VersionMaps ==
    {[v \in {} |-> NoVersionData]}
        \cup {[v \in {pv} |-> vm] : pv \in PublishedVersions,
                                     vm \in SampleVersionManifests}
        \cup [PublishedVersions -> SampleVersionManifests]

\* response.json() raises
InvalidJson ==
    [json |-> "invalid"]

\* response.json() is a package manifest; latest is dist-tags.latest or None
Manifests ==
    {[json |-> "object", latest |-> l, versions |-> vs] :
        l \in {None} \cup PublishedVersions, vs \in VersionMaps}

RegistryAnswers ==
    {[kind |-> "exception", status |-> 0, body |-> InvalidJson],
     [kind |-> "response", status |-> 404, body |-> InvalidJson]}
        \cup {[kind |-> "response", status |-> st, body |-> b] :
                st \in {200, 500}, b \in {InvalidJson} \cup Manifests}

JsType ==
    <<"t","e","x","t","/","j","a","v","a","s","c","r","i","p","t">>

CdnBodies ==
    {<<"A">>, <<"B">>}

\* an origin answers 200 with a body and maybe a Content-Type, answers another
\* status, or the request raises (timeout, transport failure)
CdnAnswers ==
    {[kind |-> "exception", status |-> 0, body |-> <<>>, content_type |-> None],
     [kind |-> "response", status |-> 404, body |-> <<>>, content_type |-> None]}
        \cup {[kind |-> "response", status |-> 200, body |-> b, content_type |-> ct] :
                b \in CdnBodies, ct \in {None, JsType}}


(***************************************************************************)
(* get_package_file: the walk over cdn_urls.                               *)
(***************************************************************************)
\* a faulty start of the walk: every url is requested at once
StartFetchAll(name, v, path) ==
    <<Issued(CdnUrls(name, v, path)[1]), Issued(CdnUrls(name, v, path)[2])>>

\* get_package_file up to its first await: the first url is requested
StartFetch(name, v, path) ==
    <<Issued(CdnUrls(name, v, path)[1])>>

\* response.status_code == 200 was reached for this answer
Is200(answer) ==
    answer.kind = "response" /\ answer.status = 200

\* a faulty turn of the loop: an exception is not caught and ends the request
\* with a server error
FetchStepNoCatch(calls, urls, answer) ==
    LET n == Len(calls)
        completed == [calls EXCEPT ![n] = Completed(calls[n], answer)]
    IN  IF Is200(answer)
        THEN [pc |-> "done", cdn_calls |-> completed,
              response |-> FileResponse(answer)]
        ELSE IF answer.kind = "exception"
        THEN [pc |-> "done", cdn_calls |-> completed,
              response |-> PlainResponse(500, ErrorPrefix \o ExceptionText)]
        ELSE IF n < Len(urls)
        THEN [pc |-> "cdn", cdn_calls |-> Append(completed, Issued(urls[n + 1])),
              response |-> NoResponse]
        ELSE [pc |-> "done", cdn_calls |-> completed,
              response |-> PlainResponse(404, FileNotFoundText)]

\* a faulty loop: it gives up with the 404 after the first origin has failed
FetchStepFirstOriginOnly(calls, urls, answer) ==
    LET n == Len(calls)
        completed == [calls EXCEPT ![n] = Completed(calls[n], answer)]
    IN  IF Is200(answer)
        THEN [pc |-> "done", cdn_calls |-> completed,
              response |-> FileResponse(answer)]
        ELSE [pc |-> "done", cdn_calls |-> completed,
              response |-> PlainResponse(404, FileNotFoundText)]

\* one turn of the loop, resumed by the answer to the awaited request: return
\* on 200, otherwise request the next url, or return 404 after the last one
FetchStep(calls, urls, answer) ==
    LET n == Len(calls)
        completed == [calls EXCEPT ![n] = Completed(calls[n], answer)]
    IN  IF Is200(answer)
        THEN [pc |-> "done", cdn_calls |-> completed,
              response |-> FileResponse(answer)]
        ELSE IF n < Len(urls)
        THEN [pc |-> "cdn", cdn_calls |-> Append(completed, Issued(urls[n + 1])),
              response |-> NoResponse]
        ELSE [pc |-> "done", cdn_calls |-> completed,
              response |-> PlainResponse(404, FileNotFoundText)]

(***************************************************************************)
(* The handlers that read the registry, from the registry's answer on.     *)
(***************************************************************************)
\* no version manifest read yet
NoPackageJson ==
    [jsdelivr |-> Absent, exports |-> Absent, main |-> Absent]

\* resolve_entry_file not called yet
NotResolved ==
    <<"<unset>">>

\* a faulty get_package_entry: the result of resolve_entry_file is not tested
\* for None before the file is fetched
EntryAfterRegistryNoEntryCheck(name, v, answer) ==
    LET return(resp, chosen) ==
            [pc |-> "done", version |-> chosen, package_json |-> NoPackageJson,
             entry_file |-> NotResolved, file_path |-> None, cdn_calls |-> <<>>,
             response |-> resp]
    IN  IF answer.kind = "exception"
        THEN return(PlainResponse(500, ErrorPrefix \o ExceptionText), v)
        ELSE IF answer.status = 404
        THEN return(PlainResponse(404, PackageNotFoundText), v)
        ELSE IF answer.body.json = "invalid"
        THEN return(PlainResponse(500, ErrorPrefix \o ExceptionText), v)
        ELSE LET chosen == IF Falsy(v) THEN answer.body.latest ELSE v
             IN  IF chosen \notin DOMAIN answer.body.versions
                 THEN return(PlainResponse(404, VersionNotFoundText(chosen)), chosen)
                 ELSE LET version_data == answer.body.versions[chosen]
                          entry == resolve_entry_file(version_data)
                      IN  [pc |-> "cdn", version |-> chosen,
                           package_json |-> version_data,
                           entry_file |-> entry, file_path |-> entry,
                           cdn_calls |-> StartFetch(name, chosen, entry),
                           response |-> NoResponse]

\* a faulty handler: it looks up dist-tags.latest in versions, whatever the
\* version asked for, and still fetches the version asked for
EntryAfterRegistryChecksLatest(name, v, answer) ==
    LET return(resp, chosen) ==
            [pc |-> "done", version |-> chosen, package_json |-> NoPackageJson,
             entry_file |-> NotResolved, file_path |-> None, cdn_calls |-> <<>>,
             response |-> resp]
    IN  IF answer.kind = "exception"
        THEN return(PlainResponse(500, ErrorPrefix \o ExceptionText), v)
        ELSE IF answer.status = 404
        THEN return(PlainResponse(404, PackageNotFoundText), v)
        ELSE IF answer.body.json = "invalid"
        THEN return(PlainResponse(500, ErrorPrefix \o ExceptionText), v)
        ELSE LET chosen == IF Falsy(v) THEN answer.body.latest ELSE v
                 latest == answer.body.latest
             IN  IF latest \notin DOMAIN answer.body.versions
                 THEN return(PlainResponse(404, VersionNotFoundText(chosen)), chosen)
                 ELSE LET version_data == answer.body.versions[latest]
                          entry == resolve_entry_file(version_data)
                      IN  IF entry = None
                          THEN [return(PlainResponse(404, NotFoundText), chosen)
                                    EXCEPT !.package_json = version_data,
                                           !.entry_file = None]
                          ELSE [pc |-> "cdn", version |-> chosen,
                                package_json |-> version_data,
                                entry_file |-> entry, file_path |-> entry,
                                cdn_calls |-> StartFetch(name, chosen, entry),
                                response |-> NoResponse]

\* get_package_entry after `await client.get(...)`
EntryAfterRegistry(name, v, answer) ==
    LET return(resp, chosen) ==
            [pc |-> "done", version |-> chosen, package_json |-> NoPackageJson,
             entry_file |-> NotResolved, file_path |-> None, cdn_calls |-> <<>>,
             response |-> resp]
    IN  IF answer.kind = "exception"
        THEN return(PlainResponse(500, ErrorPrefix \o ExceptionText), v)
        ELSE IF answer.status = 404
        THEN return(PlainResponse(404, PackageNotFoundText), v)
        ELSE IF answer.body.json = "invalid"
        THEN return(PlainResponse(500, ErrorPrefix \o ExceptionText), v)
        ELSE LET chosen == IF Falsy(v) THEN answer.body.latest ELSE v
             IN  IF chosen \notin DOMAIN answer.body.versions
                 THEN return(PlainResponse(404, VersionNotFoundText(chosen)), chosen)
                 ELSE LET version_data == answer.body.versions[chosen]
                          entry == resolve_entry_file(version_data)
                      IN  IF entry = None
                          THEN [return(PlainResponse(404, NotFoundText), chosen)
                                    EXCEPT !.package_json = version_data,
                                           !.entry_file = None]
                          ELSE [pc |-> "cdn", version |-> chosen,
                                package_json |-> version_data,
                                entry_file |-> entry, file_path |-> entry,
                                cdn_calls |-> StartFetch(name, chosen, entry),
                                response |-> NoResponse]

\* a faulty redirect: the target lacks the trailing "/" of the directory form
RedirectAfterRegistryNoSlash(name, answer) ==
    IF answer.kind = "exception"
    THEN HtmlResponse(500, H1(ErrorPrefix \o ExceptionText))
    ELSE IF answer.status = 404
    THEN HtmlResponse(404, H1(PackageNotFoundText))
    ELSE IF answer.body.json = "invalid"
    THEN HtmlResponse(500, H1(ErrorPrefix \o ExceptionText))
    ELSE IF ~Falsy(answer.body.latest)
    THEN RedirectResponse(<<"/">> \o name \o <<"@">> \o answer.body.latest)
    ELSE HtmlResponse(500, H1(NoLatestText))

\* the second shape of handle_request after `await client.get(...)`
RedirectAfterRegistry(name, answer) ==
    IF answer.kind = "exception"
    THEN HtmlResponse(500, H1(ErrorPrefix \o ExceptionText))
    ELSE IF answer.status = 404
    THEN HtmlResponse(404, H1(PackageNotFoundText))
    ELSE IF answer.body.json = "invalid"
    THEN HtmlResponse(500, H1(ErrorPrefix \o ExceptionText))
    ELSE IF ~Falsy(answer.body.latest)
    THEN RedirectResponse(<<"/">> \o name \o <<"@">> \o answer.body.latest \o <<"/">>)
    ELSE HtmlResponse(500, H1(NoLatestText))

\* get_package_directory after `await client.get(...)`
DirectoryAfterRegistry(name, v, answer) ==
    IF answer.kind = "exception"
    THEN HtmlResponse(500, H1(ErrorPrefix \o ExceptionText))
    ELSE IF answer.status = 404
    THEN HtmlResponse(404, H1(PackageNotFoundText))
    ELSE IF answer.body.json = "invalid"
    THEN HtmlResponse(500, H1(ErrorPrefix \o ExceptionText))
    ELSE IF v \notin DOMAIN answer.body.versions
    THEN HtmlResponse(404, H1(VersionNotFoundText(v)))
    ELSE HtmlResponse(200, DirectoryHtml(name))

(***************************************************************************)
(* The request model: one request, from handle_request to its response.    *)
(***************************************************************************)
Init ==
    /\ pc = "start"
    /\ full_path \in RequestPaths
    /\ handler = "none"
    /\ package_name = None
    /\ version = None
    /\ file_path = None
    /\ registry_call = NoCall
    /\ cdn_calls = <<>>
    /\ package_json = NoPackageJson
    /\ entry_file = NotResolved
    /\ response = NoResponse
    /\ requests = <<>>

\* handle_request up to the first await of the handler it dispatches to
HandleRequest ==
    /\ pc = "start"
    /\ LET d == Dispatch(full_path)
       IN  /\ handler' = d.handler
           /\ package_name' = d.package_name
           /\ version' = d.version
           /\ file_path' = d.file_path
           /\ IF d.handler = "get_package_file"
              THEN /\ cdn_calls' = StartFetch(d.package_name, d.version, d.file_path)
                   /\ pc' = "cdn"
                   /\ UNCHANGED <<registry_call, response>>
              ELSE IF d.handler = "not_found"
              THEN /\ response' = PlainResponse(404, NotFoundText)
                   /\ pc' = "done"
                   /\ UNCHANGED <<registry_call, cdn_calls>>
              ELSE /\ registry_call' = Issued(RegistryUrl(d.package_name))
                   /\ pc' = "registry"
                   /\ UNCHANGED <<cdn_calls, response>>
    /\ UNCHANGED <<full_path, package_json, entry_file>>
    /\ UNCHANGED requests

\* get_package_entry resumes with the registry's answer
GetPackageEntry ==
    /\ pc = "registry"
    /\ handler = "get_package_entry"
    /\ \E answer \in RegistryAnswers :
          LET r == EntryAfterRegistry(package_name, version, answer)
          IN  /\ registry_call' = Completed(registry_call, answer)
              /\ pc' = r.pc
              /\ version' = r.version
              /\ package_json' = r.package_json
              /\ entry_file' = r.entry_file
              /\ file_path' = r.file_path
              /\ cdn_calls' = r.cdn_calls
              /\ response' = r.response
    /\ UNCHANGED <<full_path, handler, package_name>>
    /\ UNCHANGED requests

\* the latest-directory shape resumes with the registry's answer
RedirectLatest ==
    /\ pc = "registry"
    /\ handler = "redirect_latest"
    /\ \E answer \in RegistryAnswers :
          /\ registry_call' = Completed(registry_call, answer)
          /\ response' = RedirectAfterRegistry(package_name, answer)
    /\ pc' = "done"
    /\ UNCHANGED <<full_path, handler, package_name, version, file_path,
                   cdn_calls, package_json, entry_file>>
    /\ UNCHANGED requests

\* get_package_directory resumes with the registry's answer
GetPackageDirectory ==
    /\ pc = "registry"
    /\ handler = "get_package_directory"
    /\ \E answer \in RegistryAnswers :
          /\ registry_call' = Completed(registry_call, answer)
          /\ response' = DirectoryAfterRegistry(package_name, version, answer)
    /\ pc' = "done"
    /\ UNCHANGED <<full_path, handler, package_name, version, file_path,
                   cdn_calls, package_json, entry_file>>
    /\ UNCHANGED requests

\* get_package_file resumes with the answer of the origin it awaits
GetPackageFile ==
    /\ pc = "cdn"
    /\ \E answer \in CdnAnswers :
          LET r == FetchStep(cdn_calls, CdnUrls(package_name, version, file_path),
                             answer)
          IN  /\ pc' = r.pc
              /\ cdn_calls' = r.cdn_calls
              /\ response' = r.response
    /\ UNCHANGED <<full_path, handler, package_name, version, file_path,
                   registry_call, package_json, entry_file>>
    /\ UNCHANGED requests

Next ==
    \/ HandleRequest
    \/ GetPackageEntry
    \/ RedirectLatest
    \/ GetPackageDirectory
    \/ GetPackageFile

Spec ==
    Init /\ [][Next]_vars

(***************************************************************************)
(* The resolver model: resolve_entry_file applied to every version         *)
(* manifest within the bounds.                                             *)
(***************************************************************************)
InitResolve ==
    /\ pc = "resolve"
    /\ package_json \in VersionManifests
    /\ entry_file = NotResolved
    /\ full_path = <<>>
    /\ handler = "none"
    /\ package_name = None
    /\ version = None
    /\ file_path = None
    /\ registry_call = NoCall
    /\ cdn_calls = <<>>
    /\ response = NoResponse
    /\ requests = <<>>

ResolveEntryFile ==
    /\ pc = "resolve"
    /\ entry_file' = resolve_entry_file(package_json)
    /\ pc' = "resolved"
    /\ UNCHANGED <<full_path, handler, package_name, version, file_path,
                   registry_call, cdn_calls, package_json, response>>
    /\ UNCHANGED requests

SpecResolve ==
    InitResolve /\ [][ResolveEntryFile]_vars


(***************************************************************************)
(* Properties of the dispatch (request model).                             *)
(***************************************************************************)
\* handle_request has dispatched and the handler has not resumed yet, so the
\* variables hold the arguments of the call
JustDispatched ==
    pc # "start" /\ registry_call.state # "done"

\* p is head @ tail, with no "@" in head
SplitAtFirstAt(p, head, tail) ==
    \E i \in 1..Len(p) :
        /\ p[i] = "@"
        /\ \A j \in 1..(i - 1) : p[j] # "@"
        /\ head = SubSeq(p, 1, i - 1)
        /\ tail = SubSeq(p, i + 1, Len(p))

\* the request path has a "/" somewhere after its first "@"
SlashAfterFirstAt(p) ==
    \E i, j \in 1..Len(p) :
        /\ p[i] = "@"
        /\ \A k \in 1..(i - 1) : p[k] # "@"
        /\ i < j
        /\ p[j] = "/"

\* C1: handle_request dispatches every path to exactly one handler, decided
\* by the shape of the path: no "@" and no trailing "/" -> entry of the latest
\* version (no version given); no "@" and a trailing "/" -> the redirect to
\* the latest directory; "@" with no "/" after the first "@" -> entry of the
\* pinned version; "@" and a trailing "/" -> directory listing; "@" with a "/"
\* after the first "@" and no trailing "/" -> file fetch.  The five lodash
\* paths reach the five handlers in this order with package lodash, version
\* 4.17.21 and file path dist/lodash.js.
C1_DispatchByShape ==
    JustDispatched =>
        LET p == full_path
            at == \E i \in 1..Len(p) : p[i] = "@"
            trailing == p[Len(p)] = "/"
        IN  /\ handler \in {"get_package_entry", "redirect_latest",
                            "get_package_directory", "get_package_file"}
            /\ (~at /\ ~trailing) =>
                  /\ handler = "get_package_entry"
                  /\ package_name = p
                  /\ version = None
            /\ (~at /\ trailing) => handler = "redirect_latest"
            /\ (at /\ ~SlashAfterFirstAt(p)) =>
                  /\ handler = "get_package_entry"
                  /\ SplitAtFirstAt(p, package_name, version)
            /\ (at /\ trailing) => handler = "get_package_directory"
            /\ (at /\ SlashAfterFirstAt(p) /\ ~trailing) =>
                  handler = "get_package_file"
            /\ p = Lodash =>
                  /\ handler = "get_package_entry"
                  /\ package_name = Lodash
                  /\ version = None
            /\ p = Lodash \o <<"/">> =>
                  /\ handler = "redirect_latest"
                  /\ package_name = Lodash
            /\ p = Lodash \o <<"@">> \o LodashVersion =>
                  /\ handler = "get_package_entry"
                  /\ package_name = Lodash
                  /\ version = LodashVersion
            /\ p = Lodash \o <<"@">> \o LodashVersion \o <<"/">> =>
                  /\ handler = "get_package_directory"
                  /\ package_name = Lodash
                  /\ version = LodashVersion
            /\ p = Lodash \o <<"@">> \o LodashVersion \o <<"/">> \o LodashFile =>
                  /\ handler = "get_package_file"
                  /\ package_name = Lodash
                  /\ version = LodashVersion
                  /\ file_path = LodashFile

\* the lodash file path has been dispatched to the file fetch
C1_Witness ==
    /\ full_path = Lodash \o <<"@">> \o LodashVersion \o <<"/">> \o LodashFile
    /\ pc = "cdn"
    /\ handler = "get_package_file"
    /\ package_name = Lodash
    /\ version = LodashVersion
    /\ file_path = LodashFile

(***************************************************************************)
(* Properties of resolve_entry_file (resolver model).                      *)
(***************************************************************************)
\* exports["."] exists and is a mapping with a "default" key
DotHasDefault(pj) ==
    /\ pj.exports.t = "map"
    /\ pj.exports.dot.t = "map"
    /\ pj.exports.dot.default.t # "absent"

\* exports["."] exists and is a string
DotIsString(pj) ==
    /\ pj.exports.t = "map"
    /\ pj.exports.dot.t = "str"

\* C2: resolve_entry_file takes the entry from the first candidate that
\* applies: jsdelivr if present; else exports["."].default when exports["."]
\* is a mapping with a default key; else exports["."] when it is a string;
\* else main if present; else None.  With jsdelivr and main both present the
\* entry comes from jsdelivr whatever exports holds; with none of jsdelivr,
\* exports and main the result is None.
C2_ResolutionOrder ==
    pc = "resolved" =>
        LET pj == package_json
            jsd == pj.jsdelivr.t # "absent"
            main == pj.main.t # "absent"
        IN  /\ jsd => entry_file = lstrip(pj.jsdelivr.v, DotSlash)
            /\ (~jsd /\ DotHasDefault(pj)) =>
                  entry_file = lstrip(pj.exports.dot.default.v, DotSlash)
            /\ (~jsd /\ DotIsString(pj)) =>
                  entry_file = lstrip(pj.exports.dot.v, DotSlash)
            /\ (~jsd /\ ~DotHasDefault(pj) /\ ~DotIsString(pj) /\ main) =>
                  entry_file = lstrip(pj.main.v, DotSlash)
            /\ (~jsd /\ ~DotHasDefault(pj) /\ ~DotIsString(pj) /\ ~main) =>
                  entry_file = None
            /\ (jsd /\ main) => entry_file = lstrip(pj.jsdelivr.v, DotSlash)
            /\ (~jsd /\ pj.exports.t = "absent" /\ ~main) => entry_file = None

\* jsdelivr, a default export and main all present and all different: the
\* entry is the one of jsdelivr
C2_Witness ==
    /\ pc = "resolved"
    /\ package_json.jsdelivr = StrVal(<<"a">>)
    /\ package_json.exports = ExportsMapping(DotMapping(StrVal(IndexJs)))
    /\ package_json.main = StrVal(VueEntry)
    /\ entry_file = <<"a">>

\* C3: with jsdelivr absent and main present, the entry equals main (and is
\* not None) when exports["."] is a mapping without a default key, when
\* exports has no "." key, and when exports is not a mapping.
C3_FallbackToMain ==
    (/\ pc = "resolved"
     /\ package_json.jsdelivr.t = "absent"
     /\ package_json.main.t = "str"
     /\ \/ /\ package_json.exports.t = "map"
           /\ package_json.exports.dot.t = "map"
           /\ package_json.exports.dot.default.t = "absent"
        \/ /\ package_json.exports.t = "map"
           /\ package_json.exports.dot.t = "absent"
        \/ package_json.exports.t \in {"str", "other"})
    => /\ entry_file = lstrip(package_json.main.v, DotSlash)
       /\ entry_file # None

\* exports["."] is a mapping without default, and the entry is main's
C3_Witness ==
    /\ pc = "resolved"
    /\ package_json.jsdelivr = Absent
    /\ package_json.exports = ExportsMapping(DotMapping(Absent))
    /\ package_json.main = StrVal(IndexJs)
    /\ entry_file = IndexJs

\* the value of the candidate resolve_entry_file selects (when there is one)
SelectedCandidate(pj) ==
    IF pj.jsdelivr.t # "absent" THEN pj.jsdelivr.v
    ELSE IF DotHasDefault(pj) THEN pj.exports.dot.default.v
    ELSE IF DotIsString(pj) THEN pj.exports.dot.v
    ELSE pj.main.v

\* s with one leading "./" or one leading "/" removed, every other character
\* kept in place
WithoutLeadingPrefix(s) ==
    IF Len(s) >= 2 /\ s[1] = "." /\ s[2] = "/" THEN SubSeq(s, 3, Len(s))
    ELSE IF Len(s) >= 1 /\ s[1] = "/" THEN SubSeq(s, 2, Len(s))
    ELSE s

\* C4: the path returned by resolve_entry_file equals the selected candidate
\* with a leading "./" or a leading "/" removed and every other character
\* kept; a candidate starting with neither is returned unchanged.
C4_LeadingPrefixStripped ==
    (pc = "resolved" /\ entry_file # None) =>
        entry_file = WithoutLeadingPrefix(SelectedCandidate(package_json))


(***************************************************************************)
(* Properties of the CDN walk (request model).                             *)
(***************************************************************************)
\* the origins in priority order
Origins ==
    <<JSDELIVR_CDN, UNPKG_CDN>>

\* {origin}/{package}@{version}/{filePath}
OriginUrl(i, name, v, path) ==
    Origins[i] \o <<"/">> \o name \o <<"@">> \o v \o <<"/">> \o path

\* the i-th CDN request of this request was answered with status 200
Answered200(i) ==
    /\ cdn_calls[i].state = "done"
    /\ cdn_calls[i].answer.kind = "response"
    /\ cdn_calls[i].answer.status = 200

\* the i-th CDN request of this request failed: another status, or an exception
Failed(i) ==
    /\ cdn_calls[i].state = "done"
    /\ \/ cdn_calls[i].answer.kind = "exception"
       \/ cdn_calls[i].answer.kind = "response" /\ cdn_calls[i].answer.status # 200

\* C5: the result of get_package_file over [jsDelivr, unpkg] is the body and
\* content type of the first origin, in list order, that answers 200; a
\* non-200 status, a timeout or a transport exception of an origin is
\* swallowed and never becomes the response; if no origin answers 200 the
\* result is the 404 "File Not Found", whatever the failures were.
C5_CdnFallback ==
    (pc = "done" /\ cdn_calls # <<>>) =>
        LET ok == {i \in 1..Len(cdn_calls) : Answered200(i)}
        IN  /\ \A i \in 1..Len(cdn_calls) :
                  cdn_calls[i].url = OriginUrl(i, package_name, version, file_path)
            /\ IF ok # {}
               THEN LET first == CHOOSE i \in ok : \A j \in ok : i <= j
                        answer == cdn_calls[first].answer
                    IN  /\ \A j \in 1..(first - 1) : Failed(j)
                        /\ response.status = 200
                        /\ response.body = answer.body
                        /\ response.media_type =
                              IF answer.content_type = None
                              THEN TextPlain
                              ELSE answer.content_type
               ELSE /\ Len(cdn_calls) = Len(Origins)
                    /\ \A i \in 1..Len(cdn_calls) : Failed(i)
                    /\ response.status = 404
                    /\ response.body = FileNotFoundText

\* jsDelivr raised, unpkg answered 200, and the response is unpkg's answer
C5_Witness ==
    /\ pc = "done"
    /\ Len(cdn_calls) = 2
    /\ cdn_calls[1].answer.kind = "exception"
    /\ Answered200(2)
    /\ cdn_calls[2].answer.body = <<"B">>
    /\ cdn_calls[2].answer.content_type = JsType
    /\ response.status = 200
    /\ response.body = <<"B">>
    /\ response.media_type = JsType

\* C6: within one request the origins are contacted one after another in
\* priority order: the request to the second origin is issued only after the
\* request to the first has completed with a non-200 status or an exception,
\* two origin requests are never in flight together, and once an origin has
\* answered 200 no further origin is contacted.
C6_OneOriginAtATime ==
    /\ Cardinality({i \in 1..Len(cdn_calls) : cdn_calls[i].state = "inflight"}) <= 1
    /\ Len(cdn_calls) <= Len(Origins)
    /\ \A i \in 1..Len(cdn_calls) :
          /\ cdn_calls[i].url = OriginUrl(i, package_name, version, file_path)
          /\ i < Len(cdn_calls) => Failed(i)
          /\ Answered200(i) => (i = Len(cdn_calls) /\ pc = "done")

\* the second origin is being asked after the first one raised
C6_Witness ==
    /\ pc = "cdn"
    /\ Len(cdn_calls) = 2
    /\ cdn_calls[1].state = "done"
    /\ cdn_calls[1].answer.kind = "exception"
    /\ cdn_calls[2].state = "inflight"
    /\ cdn_calls[2].url = OriginUrl(2, package_name, version, file_path)

(***************************************************************************)
(* Properties of the handlers that read the registry (request model).      *)
(***************************************************************************)
\* the registry request of this request has been answered
RegistryAnswered ==
    registry_call.state = "done"

\* C7: for an entry request a CDN request is issued only after the registry
\* request has completed, and only if the registry did not answer 404, the
\* chosen version is a key of the manifest's versions and resolve_entry_file
\* returned a path.  When the registry answers 404, or the entry resolves to
\* None, the response is 404 and no CDN request is made.
C7_EntryCallsGated ==
    handler = "get_package_entry" =>
        /\ registry_call.state = "inflight" => cdn_calls = <<>>
        /\ cdn_calls # <<>> =>
              /\ RegistryAnswered
              /\ registry_call.answer.kind = "response"
              /\ registry_call.answer.status # 404
              /\ registry_call.answer.body.json = "object"
              /\ version \in DOMAIN registry_call.answer.body.versions
              /\ resolve_entry_file(registry_call.answer.body.versions[version]) # None
              /\ file_path =
                    resolve_entry_file(registry_call.answer.body.versions[version])
        /\ (/\ RegistryAnswered
            /\ registry_call.answer.kind = "response"
            /\ registry_call.answer.status = 404) =>
              /\ pc = "done"
              /\ response.status = 404
              /\ cdn_calls = <<>>
        /\ (/\ RegistryAnswered
            /\ registry_call.answer.kind = "response"
            /\ registry_call.answer.status # 404
            /\ registry_call.answer.body.json = "object"
            /\ version \in DOMAIN registry_call.answer.body.versions
            /\ resolve_entry_file(registry_call.answer.body.versions[version]) = None) =>
              /\ pc = "done"
              /\ response.status = 404
              /\ cdn_calls = <<>>

\* the version is published, its manifest names no entry: 404, no CDN request
C7_Witness ==
    /\ handler = "get_package_entry"
    /\ pc = "done"
    /\ RegistryAnswered
    /\ registry_call.answer.kind = "response"
    /\ registry_call.answer.status = 200
    /\ registry_call.answer.body.json = "object"
    /\ version \in DOMAIN registry_call.answer.body.versions
    /\ entry_file = None
    /\ response.status = 404
    /\ response.body = NotFoundText
    /\ cdn_calls = <<>>

\* the registry request failed: it raised, its status is neither 200 nor 404,
\* or its body (of a response that is not a 404) is not valid JSON
RegistryFailed ==
    /\ RegistryAnswered
    /\ \/ registry_call.answer.kind = "exception"
       \/ /\ registry_call.answer.kind = "response"
          /\ registry_call.answer.status \notin {200, 404}
       \/ /\ registry_call.answer.kind = "response"
          /\ registry_call.answer.status # 404
          /\ registry_call.answer.body.json = "invalid"

\* C8: in every handler that fetches the manifest, a registry response whose
\* status is neither 200 nor 404, a network failure, or a body that is not
\* valid JSON produces a 500 response, never a 404, a redirect or a 200.
C8_RegistryFailureIs500 ==
    RegistryFailed => (pc = "done" /\ response.status = 500)

\* what holds of the code: an exception of the request, or a body that is not
\* JSON, gives a 500
RegistryExceptionIs500 ==
    (/\ RegistryAnswered
     /\ \/ registry_call.answer.kind = "exception"
        \/ /\ registry_call.answer.status # 404
           /\ registry_call.answer.body.json = "invalid")
    => (pc = "done" /\ response.status = 500)


\* sub occurs in s as a run of consecutive characters
IsSubstring(sub, s) ==
    \E i \in 0..Len(s) :
        /\ i + Len(sub) <= Len(s)
        /\ SubSeq(s, i + 1, i + Len(sub)) = sub

\* the text after the first "@" of the request path
TextAfterFirstAt ==
    SubSeq(full_path, FirstIndex(full_path, "@") + 1, Len(full_path))

\* the version V a pinned-entry request or a versioned-directory request
\* names: the text between the first "@" and the end of the path, or the
\* trailing "/" of the directory form
NamedVersion ==
    IF handler = "get_package_directory"
    THEN rstrip(TextAfterFirstAt, {"/"})
    ELSE TextAfterFirstAt

\* a pinned-entry or versioned-directory request whose registry request was
\* answered 200 with a manifest that does not publish the named version
NamesMissingVersion ==
    /\ handler \in {"get_package_entry", "get_package_directory"}
    /\ \E i \in 1..Len(full_path) : full_path[i] = "@"
    /\ RegistryAnswered
    /\ registry_call.answer.kind = "response"
    /\ registry_call.answer.status = 200
    /\ registry_call.answer.body.json = "object"
    /\ NamedVersion \notin DOMAIN registry_call.answer.body.versions

\* C9: when a pinned-entry or versioned-directory request names a version V
\* that is not a key of the manifest's versions, the response has status 404,
\* its body contains V, and no CDN request is made.
C9_MissingVersion404 ==
    NamesMissingVersion =>
        /\ pc = "done"
        /\ response.status = 404
        /\ IsSubstring(NamedVersion, response.body)
        /\ cdn_calls = <<>>

\* what holds of the code: the same for every V that is not the empty string
\* (an empty V makes get_package_entry take dist-tags.latest instead)
MissingNonEmptyVersion404 ==
    (NamesMissingVersion /\ NamedVersion # <<>>) =>
        /\ pc = "done"
        /\ response.status = 404
        /\ IsSubstring(NamedVersion, response.body)
        /\ cdn_calls = <<>>

\* /vue@9.9.9 with 9.9.9 unpublished: a 404 whose body names 9.9.9
MissingNonEmptyVersionReached ==
    /\ full_path = Vue \o <<"@">> \o VueMissingVersion
    /\ NamesMissingVersion
    /\ registry_call.answer.body.latest = VueVersion
    /\ VueVersion \in DOMAIN registry_call.answer.body.versions
    /\ response.status = 404
    /\ response.body = VersionPrefix \o VueMissingVersion \o NotFoundSuffix

\* C10: every 200 response to an entry request or a file request carries
\* exactly the body of the CDN origin that answered 200 for
\* {origin}/{package}@{version}/{filePath}, that origin's Content-Type
\* (text/plain when the origin sent none) and Access-Control-Allow-Origin: *;
\* no such 200 is produced without an origin having answered 200.
C10_FileResponseFromOrigin ==
    (/\ handler \in {"get_package_entry", "get_package_file"}
     /\ response.status = 200) =>
        /\ pc = "done"
        /\ handler = "get_package_entry" => file_path = entry_file
        /\ \E i \in 1..Len(cdn_calls) :
              /\ Answered200(i)
              /\ cdn_calls[i].url = OriginUrl(i, package_name, version, file_path)
              /\ response.body = cdn_calls[i].answer.body
              /\ cdn_calls[i].answer.content_type # None =>
                    response.media_type = cdn_calls[i].answer.content_type
              /\ cdn_calls[i].answer.content_type = None =>
                    response.media_type = TextPlain
              /\ response.cors = <<"*">>

\* /vue@3.3.4 served from unpkg, which sent no Content-Type
C10_Witness ==
    /\ full_path = Vue \o <<"@">> \o VueVersion
    /\ handler = "get_package_entry"
    /\ pc = "done"
    /\ Len(cdn_calls) = 2
    /\ cdn_calls[2].url =
          UNPKG_CDN \o <<"/">> \o Vue \o <<"@">> \o VueVersion \o <<"/">>
              \o Tail(Tail(VueEntry))
    /\ Answered200(2)
    /\ cdn_calls[2].answer.content_type = None
    /\ response.status = 200
    /\ response.body = cdn_calls[2].answer.body
    /\ response.media_type = TextPlain
    /\ response.cors = <<"*">>


(***************************************************************************)
(* The concurrent model: several requests handled at once, one task per    *)
(* request, their outbound calls answered in any order.  The state of a    *)
(* handler is a record; the steps are those of the request model.          *)
(***************************************************************************)
\* number of requests handled at once
NumRequests ==
    2

RequestIds ==
    1..NumRequests

\* a request handle_request has not started on
NewRequest(path) ==
    [pc |-> "start", full_path |-> path, handler |-> "none",
     package_name |-> None, version |-> None, file_path |-> None,
     registry_call |-> NoCall, cdn_calls |-> <<>>, entry_file |-> NotResolved,
     response |-> NoResponse]

\* handle_request up to the first await of the handler it dispatches to
Begin(r) ==
    LET d == Dispatch(r.full_path)
        file == d.handler = "get_package_file"
        unmatched == d.handler = "not_found"
    IN  [r EXCEPT
            !.handler = d.handler,
            !.package_name = d.package_name,
            !.version = d.version,
            !.file_path = d.file_path,
            !.pc = IF file THEN "cdn" ELSE IF unmatched THEN "done" ELSE "registry",
            !.cdn_calls =
                IF file
                THEN StartFetch(d.package_name, d.version, d.file_path)
                ELSE <<>>,
            !.registry_call =
                IF file \/ unmatched
                THEN NoCall
                ELSE Issued(RegistryUrl(d.package_name)),
            !.response =
                IF unmatched THEN PlainResponse(404, NotFoundText) ELSE NoResponse]

\* the handler resumes with the registry's answer
AfterRegistry(r, answer) ==
    IF r.handler = "get_package_entry"
    THEN LET e == EntryAfterRegistry(r.package_name, r.version, answer)
         IN  [r EXCEPT
                 !.registry_call = Completed(r.registry_call, answer),
                 !.pc = e.pc,
                 !.version = e.version,
                 !.entry_file = e.entry_file,
                 !.file_path = e.file_path,
                 !.cdn_calls = e.cdn_calls,
                 !.response = e.response]
    ELSE IF r.handler = "redirect_latest"
    THEN [r EXCEPT
             !.registry_call = Completed(r.registry_call, answer),
             !.pc = "done",
             !.response = RedirectAfterRegistry(r.package_name, answer)]
    ELSE [r EXCEPT
             !.registry_call = Completed(r.registry_call, answer),
             !.pc = "done",
             !.response = DirectoryAfterRegistry(r.package_name, r.version, answer)]

\* get_package_file resumes with the answer of the origin it awaits
AfterCdn(r, answer) ==
    LET f == FetchStep(r.cdn_calls,
                       CdnUrls(r.package_name, r.version, r.file_path), answer)
    IN  [r EXCEPT !.pc = f.pc, !.cdn_calls = f.cdn_calls, !.response = f.response]

\* a faulty resumption: file responses are kept in a module-level cache keyed
\* by the file path alone, and a request is served what another request got
ResumeFileFromSharedCache(reqs, i, answer) ==
    LET own == AfterCdn(reqs[i], answer)
        cached == {j \in DOMAIN reqs :
                      /\ j # i
                      /\ reqs[j].pc = "done"
                      /\ reqs[j].response.status = 200
                      /\ reqs[j].file_path = reqs[i].file_path}
    IN  IF cached # {} /\ own.pc = "done"
        THEN [reqs EXCEPT ![i] =
                 [own EXCEPT !.response = reqs[CHOOSE j \in cached : TRUE].response]]
        ELSE [reqs EXCEPT ![i] = own]

\* the task of request i resumes with a CDN answer: it reads and writes the
\* locals of its own coroutine only (each call of get_package_file builds its
\* own client, list of urls and response)
ResumeFile(reqs, i, answer) ==
    [reqs EXCEPT ![i] = AfterCdn(reqs[i], answer)]

\* the task of request i resumes with the registry's answer
ResumeRegistry(reqs, i, answer) ==
    [reqs EXCEPT ![i] = AfterRegistry(reqs[i], answer)]

\* the requests of the concurrent model
ConcurrentPaths ==
    { <<"a">>, <<"a", "/">>, <<"a", "@", "a">>, <<"a", "@", "a", "/">>,
      <<"a", "@", "a", "/", "a">> }

\* the registry's answers in the concurrent model
ConcurrentRegistryAnswers ==
    {[kind |-> "exception", status |-> 0, body |-> InvalidJson],
     [kind |-> "response", status |-> 404, body |-> InvalidJson]}
        \cup {[kind |-> "response", status |-> 200,
               body |-> [json |-> "object", latest |-> l, versions |-> vs]] :
                l \in {<<"a">>},
                vs \in {[v \in {<<"a">>} |-> vm] :
                          vm \in {[jsdelivr |-> Absent, exports |-> Absent,
                                   main |-> StrVal(<<".", "/", "a">>)],
                                  [jsdelivr |-> Absent, exports |-> Absent,
                                   main |-> StrVal(<<".", "/">>)]}}}
        \cup {[kind |-> "response", status |-> 200,
               body |-> [json |-> "object", latest |-> None,
                         versions |-> [v \in {} |-> NoVersionData]]]}

\* the origins' answers in the concurrent model
ConcurrentCdnAnswers ==
    {[kind |-> "exception", status |-> 0, body |-> <<>>, content_type |-> None],
     [kind |-> "response", status |-> 404, body |-> <<>>, content_type |-> None],
     [kind |-> "response", status |-> 200, body |-> <<"A">>, content_type |-> None],
     [kind |-> "response", status |-> 200, body |-> <<"B">>, content_type |-> JsType]}

InitConcurrent ==
    /\ requests \in [RequestIds -> {NewRequest(p) : p \in ConcurrentPaths}]
    /\ pc = "concurrent"
    /\ full_path = <<>>
    /\ handler = "none"
    /\ package_name = None
    /\ version = None
    /\ file_path = None
    /\ registry_call = NoCall
    /\ cdn_calls = <<>>
    /\ package_json = NoPackageJson
    /\ entry_file = NotResolved
    /\ response = NoResponse

\* the host starts the task of a request
StartTask ==
    /\ \E i \in DOMAIN requests :
          /\ requests[i].pc = "start"
          /\ requests' = [requests EXCEPT ![i] = Begin(requests[i])]
    /\ UNCHANGED <<pc, full_path, handler, package_name, version, file_path,
                   registry_call, cdn_calls, package_json, entry_file, response>>

\* the registry answers the request of one task
RegistryAnswersTask ==
    /\ \E i \in DOMAIN requests :
          /\ requests[i].pc = "registry"
          /\ \E answer \in ConcurrentRegistryAnswers :
                requests' = ResumeRegistry(requests, i, answer)
    /\ UNCHANGED <<pc, full_path, handler, package_name, version, file_path,
                   registry_call, cdn_calls, package_json, entry_file, response>>

\* an origin answers the request of one task
OriginAnswersTask ==
    /\ \E i \in DOMAIN requests :
          /\ requests[i].pc = "cdn"
          /\ \E answer \in ConcurrentCdnAnswers :
                requests' = ResumeFile(requests, i, answer)
    /\ UNCHANGED <<pc, full_path, handler, package_name, version, file_path,
                   registry_call, cdn_calls, package_json, entry_file, response>>

NextConcurrent ==
    \/ StartTask
    \/ RegistryAnswersTask
    \/ OriginAnswersTask

SpecConcurrent ==
    InitConcurrent /\ [][NextConcurrent]_vars

(***************************************************************************)
(* C11: serving the entry and serving the entry's path as an explicit file *)
(***************************************************************************)
\* the answers request r has received from the origins, in order
CdnAnswersOf(r) ==
    [k \in 1..Len(r.cdn_calls) |-> r.cdn_calls[k].answer]

\* the origin URLs request r has asked, in order
CdnUrlsOf(r) ==
    [k \in 1..Len(r.cdn_calls) |-> r.cdn_calls[k].url]

\* request e is a finished pinned entry request '/P@V' whose entry resolved
\* to E, and request f is the finished request '/P@V/E'
EntryAndItsFile(e, f) ==
    /\ e.pc = "done"
    /\ f.pc = "done"
    /\ e.handler = "get_package_entry"
    /\ HasChar(e.full_path, "@")
    /\ e.version = SubSeq(e.full_path, FirstIndex(e.full_path, "@") + 1,
                          Len(e.full_path))
    /\ e.cdn_calls # <<>>
    /\ f.full_path = e.full_path \o <<"/">> \o e.file_path

\* the two requests ask the same origins and, given the same answers, respond alike
SameFetch(e, f) ==
    /\ f.cdn_calls # <<>>
    /\ f.cdn_calls[1].url = e.cdn_calls[1].url
    /\ CdnAnswersOf(f) = CdnAnswersOf(e) =>
          /\ CdnUrlsOf(f) = CdnUrlsOf(e)
          /\ f.response = e.response

\* C11: for a package P, published version V and manifest whose entry resolves
\* to E, the requests '/P@V' and '/P@V/E' issue the same sequence of CDN
\* requests and, given the same CDN answers, return the same status, body,
\* Content-Type and CORS header.
C11_EntryFileSymmetry ==
    \A i \in DOMAIN requests : \A j \in DOMAIN requests :
        EntryAndItsFile(requests[i], requests[j])
            => SameFetch(requests[i], requests[j])

\* the symmetry for an entry path that is not empty and does not end in '/'
EntryFileSymmetryForPlainEntry ==
    \A i \in DOMAIN requests : \A j \in DOMAIN requests :
        /\ EntryAndItsFile(requests[i], requests[j])
        /\ requests[i].file_path # <<>>
        /\ ~EndsWith(requests[i].file_path, "/")
        => SameFetch(requests[i], requests[j])

\* both requests of the plain case have finished
EntryFileSymmetryReached ==
    \E i \in DOMAIN requests : \E j \in DOMAIN requests :
        /\ EntryAndItsFile(requests[i], requests[j])
        /\ requests[i].file_path # <<>>
        /\ requests[i].response.status = 200
        /\ CdnAnswersOf(requests[j]) = CdnAnswersOf(requests[i])

(***************************************************************************)
(* C12: the versioned file request                                         *)
(***************************************************************************)
\* handle_request has dispatched a path of the shape
\* {package}@{version}/{filePath}: a "/" after the first "@", no trailing "/"
VersionedFileRequest ==
    /\ pc # "start"
    /\ HasChar(full_path, "@")
    /\ SlashAfterFirstAt(full_path)
    /\ ~EndsWith(full_path, "/")

\* C12: a versioned file request '/{package}@{version}/{filePath}' is
\* delegated directly to the content fetcher: it never contacts the registry,
\* its outcome is decided by the CDN answers alone (the first 200 answer, or
\* none), and a file path that no origin serves with 200 ends in the 404
\* after every origin has been tried exactly once.
C12_FileDelegatedDirectly ==
    VersionedFileRequest =>
        /\ handler = "get_package_file"
        /\ registry_call = NoCall
        /\ package_json = NoPackageJson
        /\ cdn_calls # <<>>
        /\ \A i \in 1..Len(cdn_calls) :
              cdn_calls[i].url =
                  Origins[i] \o <<"/">> \o SplitOnce(full_path, "@")[1] \o <<"@">>
                      \o SplitOnce(full_path, "@")[2]
        /\ pc = "done" =>
              IF \E i \in 1..Len(cdn_calls) : Answered200(i)
              THEN response = FileResponse(cdn_calls[Len(cdn_calls)].answer)
              ELSE /\ response = PlainResponse(404, FileNotFoundText)
                   /\ Len(cdn_calls) = Len(Origins)
                   /\ \A i \in 1..Len(cdn_calls) : Failed(i)

\* a file request that no origin served: both origins failed, one by an
\* exception and one by a status, and the response is the 404
C12_Witness ==
    /\ VersionedFileRequest
    /\ full_path = Lodash \o <<"@">> \o LodashVersion \o <<"/">> \o LodashFile
    /\ pc = "done"
    /\ Len(cdn_calls) = 2
    /\ cdn_calls[1].answer.kind = "exception"
    /\ cdn_calls[2].answer.kind = "response"
    /\ cdn_calls[2].answer.status = 404
    /\ response.status = 404
    /\ registry_call = NoCall

(***************************************************************************)
(* C13: the unversioned directory request                                  *)
(***************************************************************************)
\* handle_request has dispatched a path of the shape {package}/
UnversionedDirectoryRequest ==
    /\ pc # "start"
    /\ ~HasChar(full_path, "@")
    /\ EndsWith(full_path, "/")

\* the registry answered with a response whose body is a manifest
ManifestReceived ==
    /\ RegistryAnswered
    /\ registry_call.answer.kind = "response"
    /\ registry_call.answer.status # 404
    /\ registry_call.answer.body.json = "object"

\* C13: for an unversioned directory request '/{package}/': a registry 404
\* gives a 404 page; a manifest whose dist-tags.latest is V gives a redirect
\* to '/{package}@V/', a path that handle_request in turn dispatches to the
\* directory listing of that same package and version V; a manifest without
\* a latest tag gives a 500 page.  No CDN request is made in any of these
\* cases.
C13_UnversionedDirectory ==
    UnversionedDirectoryRequest =>
        /\ handler = "redirect_latest"
        /\ package_name = rstrip(full_path, Slash)
        /\ registry_call.url = RegistryUrl(package_name)
        /\ cdn_calls = <<>>
        /\ (RegistryAnswered /\ registry_call.answer.kind = "response"
              /\ registry_call.answer.status = 404) =>
                 response = HtmlResponse(404, H1(PackageNotFoundText))
        /\ (ManifestReceived /\ registry_call.answer.body.latest # None) =>
              LET V == registry_call.answer.body.latest
                  target == <<"/">> \o package_name \o <<"@">> \o V \o <<"/">>
                  next == Dispatch(Tail(target))
              IN  /\ response.status = 307
                  /\ response.location = target
                  /\ next.handler = "get_package_directory"
                  /\ next.package_name = package_name
                  /\ next.version = V
        /\ (ManifestReceived /\ registry_call.answer.body.latest = None) =>
              response = HtmlResponse(500, H1(NoLatestText))

\* /lodash/ was redirected to the directory of the latest version
C13_Witness ==
    /\ UnversionedDirectoryRequest
    /\ full_path = Lodash \o <<"/">>
    /\ ManifestReceived
    /\ registry_call.answer.status = 200
    /\ response.status = 307
    /\ response.location = <<"/">> \o Lodash \o <<"@">> \o VueVersion \o <<"/">>
    /\ cdn_calls = <<>>

(***************************************************************************)
(* C14: scoped package names                                               *)
(***************************************************************************)
\* the characters that end a scope or a name
NameEnd ==
    {"/", "@"}

\* p begins with a scoped package name @scope/name whose last character is
\* at index n: the scope and the name are non-empty and hold no "/" or "@"
ScopedNameUpTo(p, n) ==
    /\ n <= Len(p)
    /\ p[1] = "@"
    /\ \E i \in 3..(n - 1) :
          /\ p[i] = "/"
          /\ \A k \in (2..n) \ {i} : p[k] \notin NameEnd
    /\ n < Len(p) => p[n + 1] \in NameEnd

\* C14: for a request whose package name has a scope prefix, '@scope/name'
\* alone or followed by '/', '@version', '@version/' or '@version/filePath',
\* the handler receives the package name '@scope/name', and the version, if
\* any, is the text after the '@' that follows the name.
C14_ScopedNames ==
    \A n \in 1..Len(full_path) :
        (JustDispatched /\ ScopedNameUpTo(full_path, n)) =>
            /\ package_name = SubSeq(full_path, 1, n)
            /\ (n < Len(full_path) /\ full_path[n + 1] = "@") =>
                  version = SplitOnce(SubSeq(full_path, n + 2, Len(full_path)),
                                      "/")[1]

(***************************************************************************)
(* C15: the versions mapping and the CDN requests                          *)
(***************************************************************************)
\* the version of the CDN requests of this request is a key of the versions
\* mapping of the manifest the registry returned for the package
VersionIsPublished ==
    /\ ManifestReceived
    /\ registry_call.url = RegistryUrl(package_name)
    /\ version \in DOMAIN registry_call.answer.body.versions
    /\ \A i \in 1..Len(cdn_calls) :
          cdn_calls[i].url = OriginUrl(i, package_name, version, file_path)

\* C15: for every request shape, every CDN content request issued by the
\* gateway is for a version that appears as a key of the versions mapping of
\* that package's manifest.
C15_EveryFetchedVersionPublished ==
    cdn_calls # <<>> => VersionIsPublished

\* C15 (amended): for an entry request, with or without a version in the
\* path, every CDN content request is for a version that is a key of the
\* versions mapping of the manifest the registry returned for the package; a
\* versioned file request is fetched without the manifest being read.
C15_EntryVersionPublished ==
    cdn_calls # <<>> =>
        /\ handler \in {"get_package_entry", "get_package_file"}
        /\ handler = "get_package_entry" => VersionIsPublished
        /\ handler = "get_package_file" => registry_call = NoCall

\* /vue@3.3.4 is being fetched while dist-tags.latest names another version
C15_Witness ==
    /\ handler = "get_package_entry"
    /\ full_path = Vue \o <<"@">> \o VueVersion
    /\ cdn_calls # <<>>
    /\ VersionIsPublished
    /\ version = VueVersion
    /\ registry_call.answer.body.latest # VueVersion
    /\ Cardinality(DOMAIN registry_call.answer.body.versions) = 1

(***************************************************************************)
(* C16: requests handled concurrently                                      *)
(***************************************************************************)
RECURSIVE ReplayCdn(_, _)
\* the handler of request r run alone over the CDN answers given, in order
ReplayCdn(r, answers) ==
    IF answers = <<>> \/ r.pc # "cdn"
    THEN r
    ELSE ReplayCdn(AfterCdn(r, Head(answers)), Tail(answers))

\* the answers request r has received from the origins so far
ReceivedCdnAnswers(r) ==
    LET done == {k \in 1..Len(r.cdn_calls) : r.cdn_calls[k].state = "done"}
    IN  [k \in 1..Cardinality(done) |-> r.cdn_calls[k].answer]

\* the state a handler run alone reaches from the path of request r and the
\* answers r has received to its own outbound calls
Replay(r) ==
    LET started == IF r.pc = "start"
                   THEN NewRequest(r.full_path)
                   ELSE Begin(NewRequest(r.full_path))
        resumed == IF r.registry_call.state = "done" /\ started.pc = "registry"
                   THEN AfterRegistry(started, r.registry_call.answer)
                   ELSE started
    IN  ReplayCdn(resumed, ReceivedCdnAnswers(r))

\* C16: when several requests are handled concurrently and their outbound
\* calls interleave in any order, the state of each handler, and so the
\* response to each request, is a function only of the request's own path
\* and of the registry and CDN answers to its own outbound calls.
C16_RequestsIndependent ==
    \A i \in DOMAIN requests : requests[i] = Replay(requests[i])

\* two requests for the same file were answered differently by the origins
\* while both were in progress, and each response is its own origin's answer
C16_Witness ==
    /\ DOMAIN requests = RequestIds
    /\ requests[1].full_path = requests[2].full_path
    /\ requests[1].pc = "done"
    /\ requests[2].pc = "done"
    /\ requests[1].response.status = 200
    /\ requests[2].response.status = 200
    /\ requests[1].response.body = <<"A">>
    /\ requests[2].response.body = <<"B">>
    /\ Len(requests[1].cdn_calls) = 2
    /\ Len(requests[2].cdn_calls) = 1

(***************************************************************************)
(* C17: the pinned entry request and dist-tags.latest                      *)
(***************************************************************************)
\* C17: a pinned entry request '{package}@{version}' is served only for
\* exactly the version string written in the path: that string is matched
\* against the keys of versions, the CDN is asked for that same version, and
\* dist-tags.latest is never used for a path that contains '@', whatever the
\* version string, the empty one of '{package}@' included.
C17_PinnedVersionExact ==
    (handler = "get_package_entry" /\ HasChar(full_path, "@")) =>
        /\ version = TextAfterFirstAt
        /\ cdn_calls # <<>> =>
              /\ TextAfterFirstAt \in DOMAIN registry_call.answer.body.versions
              /\ \A i \in 1..Len(cdn_calls) :
                    cdn_calls[i].url =
                        OriginUrl(i, package_name, TextAfterFirstAt, file_path)

\* the same, for a path that names a non-empty version
PinnedNonEmptyVersionExact ==
    (handler = "get_package_entry" /\ HasChar(full_path, "@")
        /\ TextAfterFirstAt # <<>>) =>
        /\ version = TextAfterFirstAt
        /\ cdn_calls # <<>> =>
              /\ TextAfterFirstAt \in DOMAIN registry_call.answer.body.versions
              /\ \A i \in 1..Len(cdn_calls) :
                    cdn_calls[i].url =
                        OriginUrl(i, package_name, TextAfterFirstAt, file_path)

(***************************************************************************)
(* C18: the versioned directory and the versioned file                     *)
(***************************************************************************)
\* the text after the first "/" that follows the first "@" of the path
SubPath ==
    LET i == FirstIndex(TextAfterFirstAt, "/")
    IN  IF i = 0
        THEN <<>>
        ELSE SubSeq(TextAfterFirstAt, i + 1, Len(TextAfterFirstAt))

\* C18: a path containing '@' is dispatched to the directory listing only
\* when what follows the first '@' is a version followed by the trailing '/'
\* and nothing else, so the version handed to the directory handler never
\* contains '/'; a path with a non-empty sub-path after the version, with or
\* without a trailing '/', is dispatched to the file handler with that
\* version and that sub-path.
C18_DirectoryOnlyForVersionSlash ==
    (pc # "start" /\ HasChar(full_path, "@")) =>
        /\ handler = "get_package_directory" =>
              /\ ~HasChar(version, "/")
              /\ version = rstrip(TextAfterFirstAt, Slash)
        /\ rstrip(SubPath, Slash) # <<>> =>
              /\ handler = "get_package_file"
              /\ version = SplitOnce(TextAfterFirstAt, "/")[1]
              /\ file_path = SubPath

\* the same, for the paths that do not end in '/' and for the paths whose
\* only '/' after the first '@' is the last character
DirectoryOrFileForPlainPaths ==
    (pc # "start" /\ HasChar(full_path, "@")
        /\ (EndsWith(full_path, "/") => SubPath = <<>>)) =>
        /\ handler = "get_package_directory" =>
              /\ ~HasChar(version, "/")
              /\ version = rstrip(TextAfterFirstAt, Slash)
        /\ rstrip(SubPath, Slash) # <<>> =>
              /\ handler = "get_package_file"
              /\ version = SplitOnce(TextAfterFirstAt, "/")[1]
              /\ file_path = SubPath

(***************************************************************************)
(* C19: the shape checks are exhaustive                                    *)
(***************************************************************************)
\* the handlers the five branches of handle_request return from
Handlers ==
    {"get_package_entry", "redirect_latest", "get_package_directory",
     "get_package_file"}

\* C19: for every path one of the five dispatch branches of handle_request
\* returns, so the final fall-through response '404 Not Found' is never
\* produced by handle_request: a response with that text comes only from
\* get_package_entry, for a manifest that names no entry.
C19_DispatchExhaustive ==
    /\ pc # "start" => handler \in Handlers
    /\ response = PlainResponse(404, NotFoundText) =>
          /\ handler = "get_package_entry"
          /\ entry_file = None

\* a path with "@", a trailing "/" and a "/" inside what follows the "@" has
\* been dispatched: the fourth branch took it
C19_Witness ==
    /\ pc # "start"
    /\ HasChar(full_path, "@")
    /\ EndsWith(full_path, "/")
    /\ HasChar(rstrip(TextAfterFirstAt, Slash), "/")
    /\ handler = "get_package_directory"

(***************************************************************************)
(* C20: the entry path handed to the content fetcher                       *)
(***************************************************************************)
\* C20: resolve_entry_file returns either None or a non-empty relative path,
\* so get_package_entry never calls the content fetcher with an empty file
\* path: every CDN URL built for an entry request has a non-empty path after
\* '{package}@{version}/'.
C20_EntryPathNonEmpty ==
    handler = "get_package_entry" =>
        /\ entry_file \in {NotResolved, None} \/ entry_file # <<>>
        /\ \A i \in 1..Len(cdn_calls) :
              /\ file_path # <<>>
              /\ cdn_calls[i].url # Origins[i] \o <<"/">> \o package_name
                                        \o <<"@">> \o version \o <<"/">>

=============================================================================
